---- MODULE Spec2Model ----
(***************************************************************************)
(* A model of diode's build orchestrator (AppBuilder::build with its       *)
(* round-based topological scheduler, diode/src/app.rs) and of the daemon  *)
(* supervisor (DaemonRegistry::run_daemons, diode-base/src/daemon.rs).     *)
(***************************************************************************)
EXTENDS Integers, Sequences, FiniteSets, TLC

(***************************************************************************)
(* Bounds and universes                                                    *)
(***************************************************************************)

\* Plugin identities (TypeId of the plugin type): PluginA, PluginB, PluginC
\* of diode/tests/app.rs.
Ids == {"A", "B", "C"}

\* Component kinds (TypeId of the component type).
Kinds == {"K"}

\* The caller of the builder, as opposed to a build routine.
Main == "main"

\* How many times the caller may call build() on one builder.
MaxBuilds == 2
\* Iterations of the while loop followed within one build() call.
MaxRounds == 4

(***************************************************************************)
(* HashMap helpers                                                         *)
(***************************************************************************)

Empty == [x \in {} |-> x]

Put(f, k, v) == [x \in DOMAIN f \cup {k} |-> IF x = k THEN v ELSE f[x]]

Remove(f, k) == [x \in DOMAIN f \ {k} |-> f[x]]

Range(s) == {s[i] : i \in DOMAIN s}

\* The sequences that enumerate the set S once each: the orders in which a
\* HashSet holding S may be iterated.
Perms(S) == {s \in [1..Cardinality(S) -> S] : Range(s) = S}

(***************************************************************************)
(* State                                                                   *)
(***************************************************************************)

VARIABLES
    \* AppBuilder fields
    plugins,          \* HashMap<TypeId, plugin>: identity -> its dependency set
    pending_plugins,  \* Vec<TypeId>
    components,       \* HashMap<TypeId, value>: kind -> who stored it
    \* locals of build()
    graph,            \* HashMap<TypeId, HashSet<TypeId>>
    used,             \* HashMap<TypeId, DependencyStatus>
    order,            \* the part of the round's order not yet executed
    ready_plugins,    \* HashSet<TypeId>
    running,          \* the plugin whose build routine is in progress, or None
    \* control and observation
    phase,            \* where the caller / build() stands
    result,           \* what the last build() call returned
    app,              \* the App handed to the caller, or None
    builds,           \* build() calls made so far
    executed,         \* routines invoked by the current build() call, in order
    built,            \* identities whose routine returned Ok
    registered,       \* identity -> [by: who registered it, deps: its dependency set]
    panicOn,          \* the identity or kind whose registration panicked, or None
    rounds,           \* iterations of build()'s while loop begun by the current call
    submitted,        \* pending_plugins as the current build() call found it
    \* DaemonRegistry and run_daemons
    has_registry,     \* the DaemonRegistry component exists
    daemons,          \* HashMap<TypeId, daemon>: identity -> the kind of its run loop
    shutdown,         \* the root CancellationToken: "live", or who cancelled it
    task,             \* spawned task -> "running", "ok", "err" or "aborted"
    joined,           \* the tasks whose result join_next has handed out, in order
    first_result,     \* the task the first join_next returned, or None
    dpc,              \* where run_daemons stands
    dresult,          \* what run_daemons returned: "Ok" or "Err"
    dsource,          \* the task whose failure run_daemons returned
    child_cancelled   \* the tasks that cancelled their own child token

builderVars == <<plugins, pending_plugins, components>>
localVars == <<graph, used, order, ready_plugins, running>>
obsVars == <<phase, result, app, builds, executed, built, registered, panicOn,
             rounds, submitted>>
daemonVars == <<has_registry, daemons, shutdown, task, joined, first_result, dpc,
                dresult, dsource, child_cancelled>>
vars == <<builderVars, localVars, obsVars, daemonVars>>

None == "none"

(***************************************************************************)
(* AppBuilder registration                                                 *)
(***************************************************************************)

\* Mutant of add_plugin: the entry is inserted and queued without looking for
\* an occupied entry.
add_plugin_overwrite(b, type_id, plugin) ==
    [b EXCEPT !.plugins = Put(b.plugins, type_id, plugin),
              !.pending_plugins = Append(b.pending_plugins, type_id)]

\* add_plugin on a builder b = [plugins, pending_plugins, panic].
add_plugin(b, type_id, plugin) ==
    IF type_id \in DOMAIN b.plugins
    THEN [b EXCEPT !.panic = TRUE]
    ELSE [b EXCEPT !.plugins = Put(b.plugins, type_id, plugin),
                   !.pending_plugins = Append(b.pending_plugins, type_id)]

\* Mutant of add_service: the provider is registered without the service's
\* dependencies.
add_service_no_dependencies(b, type_id, plugin) == add_plugin(b, type_id, {})

\* add_service registers the service's ServiceProvider as a plugin.
add_service(b, type_id, plugin) == add_plugin(b, type_id, plugin)

\* add_component on a component map c = [components, panic].
add_component(c, kind, value) ==
    IF kind \in DOMAIN c.components
    THEN [c EXCEPT !.panic = TRUE]
    ELSE [c EXCEPT !.components = Put(c.components, kind, value)]

Builder == [plugins |-> plugins, pending_plugins |-> pending_plugins, panic |-> FALSE]

Store == [components |-> components, panic |-> FALSE]

(***************************************************************************)
(* topological_sort                                                        *)
(***************************************************************************)

RECURSIVE topological_sort(_, _, _, _, _)
RECURSIVE visit_dependencies(_, _, _, _, _, _)

\* Mutant of topological_sort: an identity absent from the graph counts as
\* resolved.
topological_sort_missing_ok(type_id, g, iter, ord, usd) ==
    IF type_id \notin DOMAIN g
    THEN [res |-> "true", order |-> ord, used |-> usd]
    ELSE visit_dependencies(type_id, 1, g, iter, ord, Put(usd, type_id, "Pending"))

\* iter[x] is the order in which the HashSet graph[x] is iterated.
\* Returns [res, order, used] with res "true", "false" or "cycle".
topological_sort(type_id, g, iter, ord, usd) ==
    IF type_id \notin DOMAIN g
    THEN [res |-> "false", order |-> ord, used |-> usd]
    ELSE visit_dependencies(type_id, 1, g, iter, ord, Put(usd, type_id, "Pending"))

\* Mutant of visit_dependencies: a dependency that cannot be resolved yet is
\* skipped instead of deferring the identity.
visit_dependencies_no_defer(type_id, i, g, iter, ord, usd) ==
    IF i > Len(iter[type_id])
    THEN [res |-> "true", order |-> Append(ord, type_id),
          used |-> Put(usd, type_id, "Ready")]
    ELSE LET dep == iter[type_id][i] IN
         IF dep \in DOMAIN usd /\ usd[dep] = "Pending"
         THEN [res |-> "cycle", order |-> ord, used |-> usd]
         ELSE IF dep \in DOMAIN usd
         THEN visit_dependencies(type_id, i + 1, g, iter, ord, usd)
         ELSE LET r == topological_sort(dep, g, iter, ord, usd) IN
              IF r.res = "cycle" THEN r
              ELSE visit_dependencies(type_id, i + 1, g, iter, r.order, r.used)

\* Mutant of visit_dependencies: a dependency in the in-progress state is
\* taken for a resolved one.
visit_dependencies_no_cycle(type_id, i, g, iter, ord, usd) ==
    IF i > Len(iter[type_id])
    THEN [res |-> "true", order |-> Append(ord, type_id),
          used |-> Put(usd, type_id, "Ready")]
    ELSE LET dep == iter[type_id][i] IN
         IF dep \in DOMAIN usd
         THEN visit_dependencies(type_id, i + 1, g, iter, ord, usd)
         ELSE LET r == topological_sort(dep, g, iter, ord, usd) IN
              IF r.res = "cycle" THEN r
              ELSE IF r.res = "false"
              THEN [res |-> "false", order |-> r.order,
                    used |-> Remove(r.used, type_id)]
              ELSE visit_dependencies(type_id, i + 1, g, iter, r.order, r.used)

\* Mutant of visit_dependencies: a deferred identity keeps its in-progress
\* mark.
visit_dependencies_keep_pending(type_id, i, g, iter, ord, usd) ==
    IF i > Len(iter[type_id])
    THEN [res |-> "true", order |-> Append(ord, type_id),
          used |-> Put(usd, type_id, "Ready")]
    ELSE LET dep == iter[type_id][i] IN
         IF dep \in DOMAIN usd /\ usd[dep] = "Pending"
         THEN [res |-> "cycle", order |-> ord, used |-> usd]
         ELSE IF dep \in DOMAIN usd
         THEN visit_dependencies(type_id, i + 1, g, iter, ord, usd)
         ELSE LET r == topological_sort(dep, g, iter, ord, usd) IN
              IF r.res = "cycle" THEN r
              ELSE IF r.res = "false"
              THEN [res |-> "false", order |-> r.order, used |-> r.used]
              ELSE visit_dependencies(type_id, i + 1, g, iter, r.order, r.used)

\* The for loop of topological_sort from the i-th dependency on.
visit_dependencies(type_id, i, g, iter, ord, usd) ==
    IF i > Len(iter[type_id])
    THEN [res |-> "true", order |-> Append(ord, type_id),
          used |-> Put(usd, type_id, "Ready")]
    ELSE LET dep == iter[type_id][i] IN
         IF dep \in DOMAIN usd /\ usd[dep] = "Pending"
         THEN [res |-> "cycle", order |-> ord, used |-> usd]
         ELSE IF dep \in DOMAIN usd
         THEN visit_dependencies(type_id, i + 1, g, iter, ord, usd)
         ELSE LET r == topological_sort(dep, g, iter, ord, usd) IN
              IF r.res = "cycle" THEN r
              ELSE IF r.res = "false"
              THEN [res |-> "false", order |-> r.order,
                    used |-> Remove(r.used, type_id)]
              ELSE visit_dependencies(type_id, i + 1, g, iter, r.order, r.used)

\* The orders in which the dependency sets inserted into the graph this round
\* may be iterated: one sequence per pending identity.
IterOrders(pend, plg) ==
    {f \in [Range(pend) -> UNION {Perms(plg[x]) : x \in Range(pend)}] :
        \A x \in Range(pend) : f[x] \in Perms(plg[x])}

\* Mutant of insert_pending: each round starts from an empty graph.
insert_pending_fresh(g, pend, plg) == [x \in Range(pend) |-> plg[x]]

\* build(), lines 453-456: the dependency sets of the pending plugins enter
\* the graph.
insert_pending(g, pend, plg) ==
    [x \in DOMAIN g \cup Range(pend) |-> IF x \in Range(pend) THEN plg[x] ELSE g[x]]

RECURSIVE walk_pending(_, _, _, _, _)

\* Mutant of walk_pending: a deferred identity is not pushed back onto the
\* pending queue.
walk_pending_drop_deferred(i, pend, g, iter, acc) ==
    IF i > Len(pend) THEN acc
    ELSE LET type_id == pend[i] IN
         IF type_id \in DOMAIN acc.used
         THEN walk_pending(i + 1, pend, g, iter,
                           [acc EXCEPT !.ready = @ \cup {type_id}])
         ELSE LET r == topological_sort(type_id, g, iter, acc.order, acc.used) IN
              IF r.res = "cycle"
              THEN [acc EXCEPT !.order = r.order, !.used = r.used, !.err = TRUE]
              ELSE IF r.res = "true"
              THEN walk_pending(i + 1, pend, g, iter,
                                [acc EXCEPT !.order = r.order, !.used = r.used,
                                            !.ready = @ \cup {type_id}])
              ELSE walk_pending(i + 1, pend, g, iter,
                                [acc EXCEPT !.order = r.order, !.used = r.used])

\* Mutant of walk_pending: a pending identity that an earlier walk of the
\* round already resolved is not recorded as ready.
walk_pending_skip_used(i, pend, g, iter, acc) ==
    IF i > Len(pend) THEN acc
    ELSE LET type_id == pend[i] IN
         IF type_id \in DOMAIN acc.used
         THEN walk_pending(i + 1, pend, g, iter, acc)
         ELSE LET r == topological_sort(type_id, g, iter, acc.order, acc.used) IN
              IF r.res = "cycle"
              THEN [acc EXCEPT !.order = r.order, !.used = r.used, !.err = TRUE]
              ELSE IF r.res = "true"
              THEN walk_pending(i + 1, pend, g, iter,
                                [acc EXCEPT !.order = r.order, !.used = r.used,
                                            !.ready = @ \cup {type_id}])
              ELSE walk_pending(i + 1, pend, g, iter,
                                [acc EXCEPT !.order = r.order, !.used = r.used,
                                            !.pending = Append(@, type_id)])

\* build(), lines 458-468, from the i-th pending identity on.
\* acc = [order, used, ready, pending, err].
walk_pending(i, pend, g, iter, acc) ==
    IF i > Len(pend) THEN acc
    ELSE LET type_id == pend[i] IN
         IF type_id \in DOMAIN acc.used
         THEN walk_pending(i + 1, pend, g, iter,
                           [acc EXCEPT !.ready = @ \cup {type_id}])
         ELSE LET r == topological_sort(type_id, g, iter, acc.order, acc.used) IN
              IF r.res = "cycle"
              THEN [acc EXCEPT !.order = r.order, !.used = r.used, !.err = TRUE]
              ELSE IF r.res = "true"
              THEN walk_pending(i + 1, pend, g, iter,
                                [acc EXCEPT !.order = r.order, !.used = r.used,
                                            !.ready = @ \cup {type_id}])
              ELSE walk_pending(i + 1, pend, g, iter,
                                [acc EXCEPT !.order = r.order, !.used = r.used,
                                            !.pending = Append(@, type_id)])

(***************************************************************************)
(* Initial state: a freshly created, empty builder                         *)
(***************************************************************************)

BuilderInit ==
    /\ plugins = Empty
    /\ pending_plugins = <<>>
    /\ components = Empty
    /\ graph = Empty
    /\ used = Empty
    /\ order = <<>>
    /\ ready_plugins = {}
    /\ running = None
    /\ phase = "idle"
    /\ result = None
    /\ app = None
    /\ builds = 0
    /\ executed = <<>>
    /\ built = {}
    /\ registered = Empty
    /\ panicOn = None
    /\ rounds = 0
    /\ submitted = <<>>

\* No daemon registered, run_daemons not called, the root token live.
DaemonInit ==
    /\ has_registry = FALSE
    /\ daemons = Empty
    /\ shutdown = "live"
    /\ task = Empty
    /\ joined = <<>>
    /\ first_result = None
    /\ dpc = "setup"
    /\ dresult = None
    /\ dsource = None
    /\ child_cancelled = {}

Init == BuilderInit /\ DaemonInit

(***************************************************************************)
(* Actions                                                                 *)
(***************************************************************************)

\* A panic unwinds out of the registration call (and out of build(), when the
\* call was made by a build routine).
Panic(what) ==
    /\ phase' = "panicked"
    /\ result' = "panic"
    /\ panicOn' = what
    /\ UNCHANGED <<builderVars, localVars, app, builds, executed, built, registered>>

\* The registration call add_plugin(type_id) made by `who`.
RegisterPlugin(who, type_id, deps) ==
    LET b == add_plugin(Builder, type_id, deps) IN
    IF b.panic THEN Panic(type_id)
    ELSE /\ plugins' = b.plugins
         /\ pending_plugins' = b.pending_plugins
         /\ registered' = Put(registered, type_id, [by |-> who, deps |-> deps])
         /\ phase' = IF who = Main THEN "idle" ELSE phase
         /\ UNCHANGED <<components, localVars, result, app, builds, executed,
                        built, panicOn>>

\* The registration call add_component(kind) made by `who`.
RegisterComponent(who, kind) ==
    LET c == add_component(Store, kind, who) IN
    IF c.panic THEN Panic(kind)
    ELSE /\ components' = c.components
         /\ phase' = IF who = Main THEN "idle" ELSE phase
         /\ UNCHANGED <<plugins, pending_plugins, localVars, result, app, builds,
                        executed, built, registered, panicOn>>

\* The caller holds the builder: before build(), or after build() returned Err.
CallerTurn == phase \in {"idle", "returned"}

\* The caller registers a plugin (or a service) on the builder.
AddPlugin ==
    /\ UNCHANGED <<daemonVars, rounds, submitted>>
    /\ CallerTurn
    /\ \E type_id \in Ids, deps \in SUBSET Ids : RegisterPlugin(Main, type_id, deps)

\* The caller registers a component on the builder.
AddComponent ==
    /\ UNCHANGED <<daemonVars, rounds, submitted>>
    /\ CallerTurn
    /\ \E kind \in Kinds : RegisterComponent(Main, kind)

\* build(), lines 447-449: the caller calls build().
BuildCall ==
    /\ UNCHANGED daemonVars
    /\ rounds' = 0
    /\ submitted' = pending_plugins
    /\ CallerTurn
    /\ builds < MaxBuilds
    /\ builds' = builds + 1
    /\ phase' = "round"
    /\ graph' = Empty
    /\ used' = Empty
    /\ order' = <<>>
    /\ ready_plugins' = {}
    /\ executed' = <<>>
    /\ result' = None
    /\ UNCHANGED <<builderVars, running, app, built, registered, panicOn>>

\* build() returns Err(err) to the caller.
ReturnErr(err) ==
    /\ phase' = "returned"
    /\ result' = err

\* Mutant of Round: a round that resolved nothing goes on to the next round.
RoundNoMissing ==
    /\ UNCHANGED <<daemonVars, submitted>>
    /\ phase = "round"
    /\ pending_plugins # <<>>
    /\ rounds < MaxRounds
    /\ rounds' = rounds + 1
    /\ \E iter \in IterOrders(pending_plugins, plugins) :
        LET g == insert_pending(graph, pending_plugins, plugins)
            acc == walk_pending(1, pending_plugins, g, iter,
                                [order |-> <<>>, used |-> used, ready |-> {},
                                 pending |-> <<>>, err |-> FALSE])
        IN /\ graph' = g
           /\ used' = acc.used
           /\ order' = acc.order
           /\ ready_plugins' = acc.ready
           /\ pending_plugins' = acc.pending
           /\ IF acc.err THEN ReturnErr("CircularDependency")
              ELSE phase' = "exec" /\ result' = result
    /\ UNCHANGED <<plugins, components, running, app, builds, executed, built,
                   registered, panicOn>>

\* build(), lines 450-471: one round of dependency resolution.
Round ==
    /\ UNCHANGED <<daemonVars, submitted>>
    /\ phase = "round"
    /\ pending_plugins # <<>>
    /\ rounds < MaxRounds
    /\ rounds' = rounds + 1
    /\ \E iter \in IterOrders(pending_plugins, plugins) :
        LET g == insert_pending(graph, pending_plugins, plugins)
            acc == walk_pending(1, pending_plugins, g, iter,
                                [order |-> <<>>, used |-> used, ready |-> {},
                                 pending |-> <<>>, err |-> FALSE])
        IN /\ graph' = g
           /\ used' = acc.used
           /\ order' = acc.order
           /\ ready_plugins' = acc.ready
           /\ pending_plugins' = acc.pending
           /\ IF acc.err THEN ReturnErr("CircularDependency")
              ELSE IF acc.order = <<>> THEN ReturnErr("MissingDependency")
              ELSE phase' = "exec" /\ result' = result
    /\ UNCHANGED <<plugins, components, running, app, builds, executed, built,
                   registered, panicOn>>

\* Mutant of ExecNext: the next routine is invoked without waiting for the
\* running one to return.
ExecNextEarly ==
    /\ UNCHANGED <<daemonVars, rounds, submitted>>
    /\ phase \in {"exec", "routine"}
    /\ order # <<>>
    /\ LET type_id == Head(order) IN
       IF type_id \in ready_plugins
       THEN /\ ready_plugins' = ready_plugins \ {type_id}
            /\ order' = Tail(order)
            /\ running' = type_id
            /\ executed' = Append(executed, type_id)
            /\ phase' = "routine"
            /\ UNCHANGED <<builderVars, graph, used, result, app, builds, built,
                           registered, panicOn>>
       ELSE Panic(None)

\* Mutant of ExecNext: the order is executed from its end.
ExecNextReversed ==
    /\ UNCHANGED <<daemonVars, rounds, submitted>>
    /\ phase = "exec"
    /\ order # <<>>
    /\ LET type_id == order[Len(order)] IN
       IF type_id \in ready_plugins
       THEN /\ ready_plugins' = ready_plugins \ {type_id}
            /\ order' = SubSeq(order, 1, Len(order) - 1)
            /\ running' = type_id
            /\ executed' = Append(executed, type_id)
            /\ phase' = "routine"
            /\ UNCHANGED <<builderVars, graph, used, result, app, builds, built,
                           registered, panicOn>>
       ELSE Panic(None)

\* build(), lines 472-478: the next identity of the order is taken and its
\* build routine is invoked.
ExecNext ==
    /\ UNCHANGED <<daemonVars, rounds, submitted>>
    /\ phase = "exec"
    /\ order # <<>>
    /\ LET type_id == Head(order) IN
       IF type_id \in ready_plugins
       THEN /\ ready_plugins' = ready_plugins \ {type_id}
            /\ order' = Tail(order)
            /\ running' = type_id
            /\ executed' = Append(executed, type_id)
            /\ phase' = "routine"
            /\ UNCHANGED <<builderVars, graph, used, result, app, builds, built,
                           registered, panicOn>>
       ELSE Panic(None)

\* The running build routine registers a plugin.
RoutineAddPlugin ==
    /\ UNCHANGED <<daemonVars, rounds, submitted>>
    /\ phase = "routine"
    /\ \E type_id \in Ids, deps \in SUBSET Ids :
        RegisterPlugin(running, type_id, deps)

\* The running build routine registers a component.
RoutineAddComponent ==
    /\ UNCHANGED <<daemonVars, rounds, submitted>>
    /\ phase = "routine"
    /\ \E kind \in Kinds : RegisterComponent(running, kind)

\* Mutant of RoutineReturn: after a routine's error the rest of the order is
\* still executed.
RoutineReturnKeepGoing ==
    /\ UNCHANGED <<daemonVars, rounds, submitted>>
    /\ phase = "routine"
    /\ running' = None
    /\ \E ok \in BOOLEAN :
        /\ built' = IF ok THEN built \cup {running} ELSE built
        /\ phase' = "exec"
        /\ result' = IF ok THEN result ELSE "PluginError"
    /\ UNCHANGED <<builderVars, graph, used, order, ready_plugins, app, builds,
                   executed, registered, panicOn>>

\* build(), line 478: the running build routine returns; an error ends build().
RoutineReturn ==
    /\ UNCHANGED <<daemonVars, rounds, submitted>>
    /\ phase = "routine"
    /\ running' = None
    /\ \E ok \in BOOLEAN :
        IF ok
        THEN /\ built' = built \cup {running}
             /\ phase' = "exec"
             /\ result' = result
        ELSE /\ built' = built
             /\ ReturnErr("PluginError")
    /\ UNCHANGED <<builderVars, graph, used, order, ready_plugins, app, builds,
                   executed, registered, panicOn>>

\* build(), line 480: the round's order has been executed.
RoundEnd ==
    /\ UNCHANGED <<daemonVars, rounds, submitted>>
    /\ phase = "exec"
    /\ order = <<>>
    /\ IF ready_plugins = {}
       THEN /\ phase' = "round"
            /\ UNCHANGED <<builderVars, localVars, result, app, builds, executed,
                           built, registered, panicOn>>
       ELSE Panic(None)

\* Mutant of BuildOk: the App is returned with an empty component store.
BuildOkEmptyApp ==
    /\ UNCHANGED <<daemonVars, rounds, submitted>>
    /\ phase = "round"
    /\ pending_plugins = <<>>
    /\ plugins' = Empty
    /\ app' = Empty
    /\ components' = Empty
    /\ phase' = "done"
    /\ result' = "Ok"
    /\ UNCHANGED <<pending_plugins, localVars, builds, executed, built, registered, panicOn>>

\* build(), lines 482-486: nothing is pending; the App takes the components.
BuildOk ==
    /\ UNCHANGED <<daemonVars, rounds, submitted>>
    /\ phase = "round"
    /\ pending_plugins = <<>>
    /\ plugins' = Empty
    /\ app' = components
    /\ components' = Empty
    /\ phase' = "done"
    /\ result' = "Ok"
    /\ UNCHANGED <<pending_plugins, localVars, builds, executed, built, registered, panicOn>>

Next ==
    \/ AddPlugin
    \/ AddComponent
    \/ BuildCall
    \/ Round
    \/ ExecNext
    \/ RoutineAddPlugin
    \/ RoutineAddComponent
    \/ RoutineReturn
    \/ RoundEnd
    \/ BuildOk

Spec == Init /\ [][Next]_vars

(***************************************************************************)
(* The dependency graph of the registered plugins                          *)
(***************************************************************************)

DepsOf(x) == IF x \in DOMAIN registered THEN registered[x].deps ELSE {}

RECURSIVE ReachFrom(_, _)

\* The identities reached from `front` over dependency edges, added to `seen`.
ReachFrom(front, seen) ==
    LET nxt == UNION {DepsOf(x) : x \in front} \ seen IN
    IF nxt = {} THEN seen ELSE ReachFrom(nxt, seen \cup nxt)

\* The identities x depends on, directly or through other registered plugins.
Reachable(x) == ReachFrom({x}, {})

HasCycle == \E x \in DOMAIN registered : x \in Reachable(x)

AllDepsRegistered == \A x \in DOMAIN registered : DepsOf(x) \subseteq DOMAIN registered

\* The first build() call on the builder has just returned.
FirstBuildReturned == builds = 1 /\ phase \in {"returned", "done"}

\* No build routine invoked by the build() call that just returned failed.
NoRoutineFailed == result # "PluginError"

NoDuplicates(seq) == \A i, j \in DOMAIN seq : seq[i] = seq[j] => i = j

Position(seq, x) == CHOOSE i \in DOMAIN seq : seq[i] = x

Last(seq) == seq[Len(seq)]

(***************************************************************************)
(* Claims about build()                                                    *)
(***************************************************************************)

\* C1: a build routine is only ever started when the routines of all the
\* identities in its plugin's dependency set have returned Ok; and when the
\* first build() on a builder returns, the registered plugins form an acyclic
\* graph, every referenced identity is registered (before or during the build)
\* and no routine failed, then build() returned Ok, every registered plugin was
\* executed exactly once, and each after all of its dependencies.
C1_BuildFollowsDependencies ==
    /\ phase = "routine" => DepsOf(running) \subseteq built
    /\ (FirstBuildReturned /\ ~HasCycle /\ AllDepsRegistered /\ NoRoutineFailed)
        => /\ result = "Ok"
           /\ Range(executed) = DOMAIN registered
           /\ NoDuplicates(executed)
           /\ \A x \in DOMAIN registered : \A d \in DepsOf(x) :
                Position(executed, d) < Position(executed, x)

\* C1 witness: a successful build in which a plugin registered by a build
\* routine is a dependency of a plugin registered up front.
C1_Witness ==
    /\ FirstBuildReturned /\ result = "Ok"
    /\ Len(executed) = 3
    /\ \E x, d \in DOMAIN registered :
        /\ d \in DepsOf(x)
        /\ registered[d].by # Main
        /\ registered[x].by = Main

\* C2 (as claimed): when the first build() returns and the graph of the
\* registered plugins has a cycle (and no routine failed), the result is
\* CircularDependency.
C2_CycleAlwaysCircular ==
    (FirstBuildReturned /\ HasCycle /\ NoRoutineFailed)
        => result = "CircularDependency"

\* C2 (amended): when the first build() returns and the graph of the
\* registered plugins has a cycle, build() did not return Ok; with no routine
\* failed the result is CircularDependency or MissingDependency, and it is
\* CircularDependency whenever every referenced identity is registered.
C2_CycleNeverOk ==
    (FirstBuildReturned /\ HasCycle)
        => /\ result # "Ok"
           /\ NoRoutineFailed
                => result \in {"CircularDependency", "MissingDependency"}
           /\ (NoRoutineFailed /\ AllDepsRegistered)
                => result = "CircularDependency"

\* C2 witness: a cycle completed by a plugin that a build routine registered,
\* reported as CircularDependency.
C2_Witness ==
    /\ FirstBuildReturned /\ result = "CircularDependency"
    /\ \E x \in DOMAIN registered :
        /\ registered[x].by # Main
        /\ x \in Reachable(x)
        /\ Reachable(x) # {x}

\* C3 (as claimed): when the first build() returns and some registered plugin
\* depends on an identity that was never registered (and no routine failed),
\* the result is MissingDependency.
C3_MissingAlwaysMissing ==
    (FirstBuildReturned /\ ~AllDepsRegistered /\ NoRoutineFailed)
        => result = "MissingDependency"

\* C3 (amended): when the first build() returns and some registered plugin
\* depends on an identity that was never registered, build() did not return
\* Ok; with no routine failed the result is MissingDependency or
\* CircularDependency, and it is MissingDependency whenever the graph of the
\* registered plugins has no cycle.
C3_MissingNeverOk ==
    (FirstBuildReturned /\ ~AllDepsRegistered)
        => /\ result # "Ok"
           /\ NoRoutineFailed
                => result \in {"MissingDependency", "CircularDependency"}
           /\ (NoRoutineFailed /\ ~HasCycle)
                => result = "MissingDependency"

\* C3 witness: MissingDependency reported in a later round, after some
\* routines have run, for a plugin whose dependency nobody registered.
C3_Witness ==
    /\ FirstBuildReturned /\ result = "MissingDependency"
    /\ ~AllDepsRegistered /\ ~HasCycle
    /\ executed # <<>>

\* The scenario of test_plugins: B and C registered by the caller, B depends
\* on A, C's routine registers A.
DiscoveryRegistered(x) ==
    /\ x \in DOMAIN registered
    /\ registered[x] = CASE x = "A" -> [by |-> "C", deps |-> {}]
                         [] x = "B" -> [by |-> Main, deps |-> {"A"}]
                         [] x = "C" -> [by |-> Main, deps |-> {}]

\* C4: in the scenario of test_plugins, while C's routine runs in the first
\* round, B is waiting in the pending queue (deferred, not failed); and when
\* the build returns with A registered by C and no routine failed, it
\* returned Ok and the routines ran in the order C, A, B.
C4_DynamicDiscovery ==
    /\ (/\ builds = 1 /\ phase = "routine" /\ running = "C"
        /\ DiscoveryRegistered("B") /\ DiscoveryRegistered("C")
        /\ "A" \in DOMAIN registered => DiscoveryRegistered("A"))
        => /\ executed = <<"C">>
           /\ "B" \in Range(pending_plugins)
           /\ "B" \notin DOMAIN used
    /\ (/\ FirstBuildReturned /\ NoRoutineFailed
        /\ \A x \in Ids : DiscoveryRegistered(x))
        => /\ result = "Ok"
           /\ executed = <<"C", "A", "B">>

\* C4 witness: the scenario with B registered before C, built successfully.
C4_Witness ==
    /\ FirstBuildReturned /\ result = "Ok"
    /\ \A x \in Ids : DiscoveryRegistered(x)
    /\ executed = <<"C", "A", "B">>
    /\ graph = [x \in Ids |-> DepsOf(x)]

\* C5: every routine invoked by a build() call before the last one returned
\* Ok; a routine that did not return Ok is the last one invoked, and it is
\* either still running, or panicked, or build() has returned PluginError;
\* and a build() that returned PluginError handed no App to the caller.
C5_PluginErrorStopsBuild ==
    /\ \A i \in 1..(Len(executed) - 1) : executed[i] \in built
    /\ (executed # <<>> /\ Last(executed) \notin built)
        => \/ phase = "routine" /\ running = Last(executed)
           \/ phase = "panicked"
           \/ phase \in {"returned", "idle"} /\ result = "PluginError"
    /\ result = "PluginError"
        => /\ app = None
           /\ phase \in {"returned", "idle"}
           /\ executed # <<>>
           /\ Last(executed) \notin built

\* C5 witness: build() returned PluginError from a routine of the second
\* round while an identity was left in that round's order.
C5_Witness ==
    /\ phase = "returned" /\ result = "PluginError"
    /\ order # <<>>
    /\ Len(executed) >= 2
    /\ registered[Last(executed)].by # Main

\* C6 (as claimed): build() returns Ok(App) only if the build routine of every
\* plugin ever registered on the builder has returned Ok.
C6_NeverPartialApp ==
    phase = "done" => DOMAIN registered \subseteq built

\* C7: the pending queue never holds an identity twice and no routine is
\* invoked twice; a registration never changes or removes an entry that was
\* already present; and a registration that panics leaves the registry, the
\* queue and the components as they were and invokes no routine.
C7_DuplicateRejected ==
    /\ [](NoDuplicates(pending_plugins) /\ NoDuplicates(executed))
    /\ [][/\ phase' # "done"
            => /\ \A x \in DOMAIN plugins :
                    x \in DOMAIN plugins' /\ plugins'[x] = plugins[x]
               /\ \A k \in DOMAIN components :
                    k \in DOMAIN components' /\ components'[k] = components[k]
          /\ (phase' = "routine" /\ phase = "exec") => running' \notin built
          /\ phase' = "panicked"
            => /\ plugins' = plugins
               /\ pending_plugins' = pending_plugins
               /\ components' = components
               /\ executed' = executed]_vars

\* C7 witness: test_plugins_duplicates: A, B and C registered up front, C's
\* routine registers A again and the call panics.
C7_Witness ==
    /\ phase = "panicked" /\ panicOn = "A"
    /\ running = "C"
    /\ DOMAIN registered = Ids
    /\ \A x \in Ids : registered[x].by = Main
    /\ registered["B"].deps = {"A"}

(***************************************************************************)
(* The daemon supervisor                                                   *)
(***************************************************************************)

\* Daemon identities (TypeId of the daemon type).
DaemonIds == {"d1", "d2", "d3"}

\* What a daemon's run loop does: "default" is the provided Daemon::run, which
\* waits for its token to be cancelled and returns Ok; "custom" is a run loop
\* that may return Ok or Err at any moment, or never; "stubborn" is a run loop
\* that ignores its token and never returns.
DaemonKinds == {"default", "custom", "stubborn"}

\* DaemonRegistry::add_daemon: HashMap::insert.
add_daemon(reg, type_id, daemon) == Put(reg, type_id, daemon)

\* Mutant of is_cancelled: the task's token is not linked to the root.
is_cancelled_detached(d) == d \in child_cancelled

\* The child token handed to task d is cancelled when the root is, or when
\* the task cancelled it itself.
is_cancelled(d) == shutdown # "live" \/ d \in child_cancelled

\* AddDaemonExt::add_daemon: the registry component is created on first use.
AddDaemon ==
    /\ dpc = "setup"
    /\ \E type_id \in DaemonIds, daemon \in DaemonKinds :
        /\ has_registry' = TRUE
        /\ daemons' = add_daemon(daemons, type_id, daemon)
    /\ UNCHANGED <<shutdown, task, joined, first_result, dpc, dresult, dsource>>
    /\ UNCHANGED <<builderVars, localVars, obsVars, child_cancelled>>

\* The caller (a signal handler, a test) cancels the root token.
ExternalCancel ==
    /\ shutdown = "live"
    /\ dpc # "returned"
    /\ shutdown' = "caller"
    /\ UNCHANGED <<has_registry, daemons, task, joined, first_result, dpc, dresult,
                   dsource>>
    /\ UNCHANGED <<builderVars, localVars, obsVars, child_cancelled>>

\* run_daemons returns `res` to the caller; the JoinSet is dropped.
DaemonsReturn(res, src) ==
    /\ dpc' = "returned"
    /\ dresult' = res
    /\ dsource' = src

\* Mutant of RunDaemonsCall: the call goes on to spawn and await even when no
\* registry exists.
RunDaemonsCallNoShortcut ==
    /\ dpc = "setup"
    /\ task' = [d \in DOMAIN daemons |-> "running"]
    /\ dpc' = "join_first"
    /\ UNCHANGED <<dresult, dsource>>
    /\ UNCHANGED <<has_registry, daemons, shutdown, joined, first_result>>
    /\ UNCHANGED <<builderVars, localVars, obsVars, child_cancelled>>

\* RunDaemonsExt::run_daemons, and DaemonRegistry::run_daemons lines 40-52:
\* without a registry the call returns Ok at once; otherwise one task is
\* spawned per daemon.
RunDaemonsCall ==
    /\ dpc = "setup"
    /\ IF has_registry
       THEN /\ task' = [d \in DOMAIN daemons |-> "running"]
            /\ dpc' = "join_first"
            /\ UNCHANGED <<dresult, dsource>>
       ELSE /\ DaemonsReturn("Ok", None)
            /\ task' = task
    /\ UNCHANGED <<has_registry, daemons, shutdown, joined, first_result>>
    /\ UNCHANGED <<builderVars, localVars, obsVars, child_cancelled>>

\* Mutant of TaskReturnOf: the provided run loop returns without waiting for
\* its token.
TaskReturnOfEager(d, res) ==
    /\ d \in DOMAIN task
    /\ task[d] = "running"
    /\ daemons[d] # "stubborn"
    /\ task' = [task EXCEPT ![d] = res]
    /\ UNCHANGED <<has_registry, daemons, shutdown, joined, first_result, dpc,
                   dresult, dsource>>
    /\ UNCHANGED <<builderVars, localVars, obsVars, child_cancelled>>

\* The run loop of task d returns `res`.
TaskReturnOf(d, res) ==
    /\ d \in DOMAIN task
    /\ task[d] = "running"
    /\ daemons[d] # "stubborn"
    /\ daemons[d] = "default" => (is_cancelled(d) /\ res = "ok")
    /\ task' = [task EXCEPT ![d] = res]
    /\ UNCHANGED <<has_registry, daemons, shutdown, joined, first_result, dpc,
                   dresult, dsource>>
    /\ UNCHANGED <<builderVars, localVars, obsVars, child_cancelled>>

\* A spawned task's run loop returns.
TaskReturn == \E d \in DaemonIds, res \in {"ok", "err"} : TaskReturnOf(d, res)

\* Mutant of TaskCancelOwn: the task holds the root token itself, not a child
\* of it.
TaskCancelOwnRoot ==
    /\ \E d \in DOMAIN task :
        /\ task[d] = "running"
        /\ daemons[d] # "default"
        /\ ~is_cancelled(d)
        /\ shutdown' = d
    /\ UNCHANGED <<has_registry, daemons, task, joined, first_result, dpc, dresult,
                   dsource, child_cancelled>>
    /\ UNCHANGED <<builderVars, localVars, obsVars>>

\* A running task cancels the token it was handed (a child of the root).
TaskCancelOwn ==
    /\ \E d \in DOMAIN task :
        /\ task[d] = "running"
        /\ daemons[d] # "default"
        /\ ~is_cancelled(d)
        /\ child_cancelled' = child_cancelled \cup {d}
    /\ UNCHANGED <<has_registry, daemons, shutdown, task, joined, first_result,
                   dpc, dresult, dsource>>
    /\ UNCHANGED <<builderVars, localVars, obsVars>>

\* A task still running when the JoinSet was dropped is aborted.
TaskAborted ==
    /\ dpc = "returned"
    /\ \E d \in DOMAIN task :
        /\ task[d] = "running"
        /\ task' = [task EXCEPT ![d] = "aborted"]
    /\ UNCHANGED <<has_registry, daemons, shutdown, joined, first_result, dpc,
                   dresult, dsource>>
    /\ UNCHANGED <<builderVars, localVars, obsVars, child_cancelled>>

\* The tasks whose result join_next can hand out now.
Completed == {d \in DOMAIN task : task[d] \in {"ok", "err"} /\ d \notin Range(joined)}

\* run_daemons, line 53: the first join_next.
JoinFirst ==
    /\ dpc = "join_first"
    /\ IF DOMAIN task = {}
       THEN first_result' = None /\ joined' = joined
       ELSE \E d \in Completed :
            /\ first_result' = d
            /\ joined' = Append(joined, d)
    /\ dpc' = "cancel"
    /\ UNCHANGED <<has_registry, daemons, shutdown, task, dresult, dsource>>
    /\ UNCHANGED <<builderVars, localVars, obsVars, child_cancelled>>

\* Mutant of CancelRoot: the root token is left alone.
CancelRootSkipped ==
    /\ dpc = "cancel"
    /\ dpc' = "check_first"
    /\ UNCHANGED <<has_registry, daemons, shutdown, task, joined, first_result,
                   dresult, dsource>>
    /\ UNCHANGED <<builderVars, localVars, obsVars, child_cancelled>>

\* run_daemons, line 54: shutdown.cancel().
CancelRoot ==
    /\ dpc = "cancel"
    /\ shutdown' = IF shutdown = "live" THEN "supervisor" ELSE shutdown
    /\ dpc' = "check_first"
    /\ UNCHANGED <<has_registry, daemons, task, joined, first_result, dresult,
                   dsource>>
    /\ UNCHANGED <<builderVars, localVars, obsVars, child_cancelled>>

\* Mutant of CheckFirst: the first result is dropped without being inspected.
CheckFirstIgnored ==
    /\ dpc = "check_first"
    /\ IF first_result = None THEN DaemonsReturn("Ok", None)
       ELSE dpc' = "join_rest" /\ UNCHANGED <<dresult, dsource>>
    /\ UNCHANGED <<has_registry, daemons, shutdown, task, joined, first_result>>
    /\ UNCHANGED <<builderVars, localVars, obsVars, child_cancelled>>

\* run_daemons, lines 55-56: the first result is inspected.
CheckFirst ==
    /\ dpc = "check_first"
    /\ IF first_result = None THEN DaemonsReturn("Ok", None)
       ELSE IF task[first_result] = "err" THEN DaemonsReturn("Err", first_result)
       ELSE dpc' = "join_rest" /\ UNCHANGED <<dresult, dsource>>
    /\ UNCHANGED <<has_registry, daemons, shutdown, task, joined, first_result>>
    /\ UNCHANGED <<builderVars, localVars, obsVars, child_cancelled>>

\* run_daemons, lines 57-58: the next result is awaited and inspected.
JoinRest ==
    /\ dpc = "join_rest"
    /\ \E d \in Completed :
        /\ joined' = Append(joined, d)
        /\ IF task[d] = "err" THEN DaemonsReturn("Err", d)
           ELSE UNCHANGED <<dpc, dresult, dsource>>
    /\ UNCHANGED <<has_registry, daemons, shutdown, task, first_result>>
    /\ UNCHANGED <<builderVars, localVars, obsVars, child_cancelled>>

\* run_daemons, lines 57 and 61: the JoinSet is empty.
JoinedAll ==
    /\ dpc = "join_rest"
    /\ Range(joined) = DOMAIN task
    /\ DaemonsReturn("Ok", None)
    /\ UNCHANGED <<has_registry, daemons, shutdown, task, joined, first_result>>
    /\ UNCHANGED <<builderVars, localVars, obsVars, child_cancelled>>

NextDaemons ==
    \/ AddDaemon
    \/ ExternalCancel
    \/ RunDaemonsCall
    \/ TaskReturn
    \/ TaskCancelOwn
    \/ TaskAborted
    \/ JoinFirst
    \/ CancelRoot
    \/ CheckFirst
    \/ JoinRest
    \/ JoinedAll

SpecDaemons == Init /\ [][NextDaemons]_vars

\* A daemon that honours cancellation: once its token is cancelled, its run
\* loop returns.
ObservedReturn(d) ==
    /\ is_cancelled(d)
    /\ \E res \in {"ok", "err"} : TaskReturnOf(d, res)

\* The runtime keeps polling run_daemons and every task that can advance, and
\* every daemon other than a stubborn one honours cancellation.
SpecDaemonsFair ==
    /\ SpecDaemons
    /\ WF_vars(JoinFirst)
    /\ WF_vars(CancelRoot)
    /\ WF_vars(CheckFirst)
    /\ WF_vars(JoinRest)
    /\ WF_vars(JoinedAll)
    /\ \A d \in DaemonIds : WF_vars(ObservedReturn(d))

(***************************************************************************)
(* Claims about run_daemons                                                *)
(***************************************************************************)

Running == {d \in DOMAIN task : task[d] = "running"}

\* C8 (as claimed): when run_daemons has returned, no task it spawned is
\* still running.
C8_ReturnsAfterAllTasks ==
    dpc = "returned" => Running = {}

\* C9: every result run_daemons observed before the latest one was a success;
\* when it returns Err, the failure is that of the task observed last, the
\* first failure in the order of observation; when it returns Ok with daemons
\* registered, it has observed every task and each reported success.
C9_FirstObservedFailure ==
    /\ \A i \in 1..(Len(joined) - 1) : task[joined[i]] = "ok"
    /\ (dpc = "returned" /\ dresult = "Err")
        => /\ joined # <<>>
           /\ dsource = Last(joined)
           /\ task[dsource] = "err"
    /\ (dpc = "returned" /\ dresult = "Ok")
        => /\ \A i \in DOMAIN joined : task[joined[i]] = "ok"
           /\ Range(joined) = DOMAIN task
    /\ (dpc = "returned" /\ joined # <<>> /\ task[Last(joined)] = "err")
        => dresult = "Err"

\* C9 witness: the returned failure comes from a task awaited after the first
\* one, and another task's failure was never observed.
C9_Witness ==
    /\ dpc = "returned" /\ dresult = "Err"
    /\ Len(joined) = 2
    /\ dsource # first_result
    /\ \E d \in DOMAIN task : d \notin Range(joined) /\ task[d] = "err"

\* C10: once the first join_next has handed out a result and the supervisor
\* has moved on (to inspect it, to await another task, or to return), the
\* root token is cancelled, and with it the token of every task.
C10_CancelAfterFirst ==
    (first_result # None /\ dpc # "cancel")
        => /\ shutdown # "live"
           /\ \A d \in DOMAIN task : is_cancelled(d)

\* C10 witness: the first task completed with success, the supervisor (not
\* the caller) cancelled the root, and other tasks are still running.
C10_Witness ==
    /\ dpc = "join_rest"
    /\ task[first_result] = "ok"
    /\ shutdown = "supervisor"
    /\ Cardinality(Running) = 2

\* C11 (as claimed): an identity already in the daemon registry keeps the
\* daemon it was registered with; a second add_daemon does not replace it.
C11_DuplicateDaemonRejected ==
    [][\A d \in DOMAIN daemons : daemons'[d] = daemons[d]]_vars

\* The caller cancelled the root while run_daemons was awaiting its tasks, and
\* every registered daemon honours cancellation.
CancelledWhileRunning ==
    /\ shutdown = "caller"
    /\ dpc \in {"join_first", "cancel", "check_first", "join_rest"}
    /\ \A d \in DOMAIN daemons : daemons[d] # "stubborn"

\* C12: once the caller has cancelled the root while the daemons run, and every
\* daemon returns after observing its cancelled token, run_daemons eventually
\* returns; and whenever it has returned while no task reported a failure, it
\* returned Ok.
C12_CancelledEventuallyReturns ==
    /\ CancelledWhileRunning ~> (dpc = "returned")
    /\ [](  (dpc = "returned" /\ \A d \in DOMAIN task : task[d] # "err")
         => dresult = "Ok")

\* C12 witness: the caller cancelled the root, all three tasks then returned
\* success and run_daemons returned Ok.
C12_Witness ==
    /\ dpc = "returned" /\ dresult = "Ok"
    /\ shutdown = "caller"
    /\ Len(joined) = 3
    /\ \A d \in DaemonIds : d \in DOMAIN task /\ task[d] = "ok"

\* C13 (as claimed): with a task that ignores cancellation and never returns,
\* run_daemons never returns, whatever the other tasks do.
C13_StubbornNeverReturns ==
    (\E d \in DOMAIN task : daemons[d] = "stubborn") => dpc # "returned"

\* C14: cancelling the root cancels the token of every task; a task that
\* cancels its own token leaves the root and the tokens of the other tasks as
\* they were, and the root is only ever cancelled by the caller or by
\* run_daemons.
C14_ChildTokens ==
    /\ [](shutdown # "live" => \A d \in DOMAIN task : is_cancelled(d))
    /\ [](shutdown \in {"live", "caller", "supervisor"})
    /\ [][child_cancelled' # child_cancelled
            => /\ shutdown' = shutdown
               /\ \A d \in DOMAIN task :
                    d \notin child_cancelled'
                        => (is_cancelled(d)' <=> is_cancelled(d))]_vars

\* C14 witness: a task cancelled its own token while the root is live and its
\* two siblings run uncancelled.
C14_Witness ==
    /\ shutdown = "live"
    /\ Cardinality(child_cancelled) = 1
    /\ Cardinality(Running) = 3
    /\ Cardinality({d \in DOMAIN task : ~is_cancelled(d)}) = 2

(***************************************************************************)
(* Claims about the rounds of build()                                      *)
(***************************************************************************)

\* The identities marked Ready in a `used` map.
ReadyIn(usd) == {x \in DOMAIN usd : usd[x] = "Ready"}

\* C15: the while loop of build() makes progress and is bounded: a round is
\* only ever begun while fewer rounds have been begun than there are
\* registered identities, and every round either ends build() with an error
\* or marks at least one more identity Ready (no identity loses that mark).
C15_RoundsBounded ==
    /\ [](rounds <= Cardinality(DOMAIN registered))
    /\ []((phase = "round" /\ pending_plugins # <<>>)
            => rounds < Cardinality(DOMAIN registered))
    /\ [][rounds' = rounds + 1
            => \/ phase' = "returned"
               \/ /\ ReadyIn(used) \subseteq ReadyIn(used')
                  /\ ReadyIn(used') # ReadyIn(used)]_vars

\* C15 witness: a build() call that needed three rounds, one per identity,
\* and returned Ok.
C15_Witness ==
    /\ phase = "done"
    /\ rounds = 3
    /\ Cardinality(DOMAIN registered) = 3

\* What the round about to begin ends with when the dependency sets are
\* iterated in the orders `iter`.
RoundOutcome(iter) ==
    LET g == insert_pending(graph, pending_plugins, plugins)
        acc == walk_pending(1, pending_plugins, g, iter,
                            [order |-> <<>>, used |-> used, ready |-> {},
                             pending |-> <<>>, err |-> FALSE])
    IN IF acc.err THEN "CircularDependency"
       ELSE IF acc.order = <<>> THEN "MissingDependency"
       ELSE "continue"

\* C16 (as claimed): whenever a round can end build() with an error, the kind
\* of that error is the same for every order in which the dependency sets can
\* be iterated.
C16_OutcomeDeterministic ==
    (phase = "round" /\ pending_plugins # <<>>)
        => \A i1, i2 \in IterOrders(pending_plugins, plugins) :
             (RoundOutcome(i1) # "continue" /\ RoundOutcome(i2) # "continue")
                => RoundOutcome(i1) = RoundOutcome(i2)

\* C17: build routines run one after the other and none is re-entered: within
\* one build() call no routine is invoked twice, a routine is only invoked
\* after every routine invoked before it has returned Ok, the routine in
\* progress is the one invoked last, and when the first build() returns Ok
\* every registered plugin's routine was invoked exactly once.
C17_SequentialOnce ==
    /\ NoDuplicates(executed)
    /\ \A i \in 1..(Len(executed) - 1) : executed[i] \in built
    /\ phase = "routine" => (running = Last(executed) /\ running \notin built)
    /\ phase \in {"round", "exec"} => (running = None /\ Range(executed) \subseteq built)
    /\ (builds = 1 /\ phase = "done")
        => (Range(executed) = DOMAIN registered /\ built = DOMAIN registered)

\* C17 witness: the first build() returned Ok after invoking three routines,
\* two of them registered by a routine during the build.
C17_Witness ==
    /\ builds = 1 /\ phase = "done"
    /\ Len(executed) = 3
    /\ Cardinality({x \in DOMAIN registered : registered[x].by # Main}) = 2

\* The three-plugin cycle A -> C, C -> B, B -> A, all registered by the caller.
ThreeCycle ==
    /\ DOMAIN registered = {"A", "B", "C"}
    /\ registered["A"].deps = {"C"}
    /\ registered["C"].deps = {"B"}
    /\ registered["B"].deps = {"A"}
    /\ \A x \in DOMAIN registered : registered[x].by = Main

\* C18: with the three-plugin cycle registered before build(), in any of the
\* six registration orders, build() returns CircularDependency in its first
\* round, before any build routine is invoked.
C18_ThreeCycleCircular ==
    (builds = 1 /\ ThreeCycle /\ submitted \in Perms(Ids))
        => /\ executed = <<>>
           /\ built = {}
           /\ phase \notin {"exec", "routine", "done"}
           /\ phase = "round" => rounds = 0
           /\ phase = "returned" => (result = "CircularDependency" /\ rounds = 1)

\* C18 witness: the cycle registered in the order C, B, A was rejected.
C18_Witness ==
    /\ builds = 1 /\ phase = "returned"
    /\ ThreeCycle
    /\ submitted = <<"C", "B", "A">>
    /\ result = "CircularDependency"

\* The chain P1 = A (no dependency), P2 = B (depends on A), P3 = C (depends
\* on B), registered by the caller in the order P3, P2, P1.
ChainReversed ==
    /\ DOMAIN registered = {"A", "B", "C"}
    /\ registered["A"].deps = {}
    /\ registered["B"].deps = {"A"}
    /\ registered["C"].deps = {"B"}
    /\ \A x \in DOMAIN registered : registered[x].by = Main
    /\ submitted = <<"C", "B", "A">>

\* C19: with the chain registered in the order P3, P2, P1, build() needs a
\* single round, invokes the routines in the order P1, P2, P3 and, no routine
\* failing, returns Ok.
C19_ChainOrder ==
    (builds = 1 /\ ChainReversed)
        => /\ rounds <= 1
           /\ executed = SubSeq(<<"A", "B", "C">>, 1, Len(executed))
           /\ (phase \in {"returned", "done"} /\ NoRoutineFailed)
                => /\ result = "Ok"
                   /\ executed = <<"A", "B", "C">>
                   /\ rounds = 1

\* C19 witness: the chain registered in reverse was built in the order
\* P1, P2, P3 and build() returned Ok.
C19_Witness ==
    /\ builds = 1 /\ phase = "done"
    /\ ChainReversed
    /\ executed = <<"A", "B", "C">>
    /\ rounds = 1

\* The tasks running the provided Daemon::run.
DefaultTasks == {d \in DOMAIN task : daemons[d] = "default"}

\* C22: a task running the provided run loop never reports a failure, has
\* only completed when its token was cancelled, cannot return while its token
\* is live, can return Ok and nothing else once its token is cancelled, and
\* then does complete with Ok unless the runtime drops it first.
C22_DefaultDaemon ==
    /\ [](\A d \in DefaultTasks :
            /\ task[d] # "err"
            /\ task[d] = "ok" => is_cancelled(d)
            /\ (task[d] = "running" /\ ~is_cancelled(d))
                => (~ENABLED TaskReturnOf(d, "ok") /\ ~ENABLED TaskReturnOf(d, "err"))
            /\ (task[d] = "running" /\ is_cancelled(d))
                => (ENABLED TaskReturnOf(d, "ok") /\ ~ENABLED TaskReturnOf(d, "err")))
    /\ \A d \in DaemonIds :
        (d \in DefaultTasks /\ task[d] = "running" /\ is_cancelled(d))
            ~> (d \in DOMAIN task /\ task[d] \in {"ok", "aborted"})

\* C22 witness: a task running the provided run loop completed with Ok after
\* the caller cancelled the root, before run_daemons observed any result.
C22_Witness ==
    /\ dpc = "join_first"
    /\ shutdown = "caller"
    /\ \E d \in DefaultTasks : task[d] = "ok"
    /\ \E d \in DefaultTasks : task[d] = "running"

(***************************************************************************)
(* From the builder to the running application                             *)
(***************************************************************************)

\* The caller registers a daemon on the builder it holds.
BuilderAddDaemon == CallerTurn /\ AddDaemon

\* Mutant of AppRunDaemons: run_daemons takes the components out of the App.
AppRunDaemonsTakesStore ==
    /\ phase = "done"
    /\ dpc = "setup"
    /\ app' = Empty
    /\ IF has_registry
       THEN /\ task' = [d \in DOMAIN daemons |-> "running"]
            /\ dpc' = "join_first"
            /\ UNCHANGED <<dresult, dsource>>
       ELSE /\ DaemonsReturn("Ok", None)
            /\ task' = task
    /\ UNCHANGED <<has_registry, daemons, shutdown, joined, first_result,
                   child_cancelled>>
    /\ UNCHANGED <<builderVars, localVars, phase, result, builds, executed, built,
                   registered, panicOn, rounds, submitted>>

\* run_daemons is called on the App that build() returned.
AppRunDaemons == phase = "done" /\ RunDaemonsCall

NextApp ==
    \/ AddComponent
    \/ BuilderAddDaemon
    \/ BuildCall
    \/ BuildOk
    \/ AppRunDaemons
    \/ ExternalCancel
    \/ TaskReturn
    \/ TaskCancelOwn
    \/ TaskAborted
    \/ JoinFirst
    \/ CancelRoot
    \/ CheckFirst
    \/ JoinRest
    \/ JoinedAll

\* A builder holding components and daemons is built, and run_daemons is
\* called on its App.
SpecApp == Init /\ [][NextApp]_vars

\* App::get_component: the value stored under the kind, or None.
get_component(store, kind) == IF kind \in DOMAIN store THEN store[kind] ELSE None

\* App::has_component.
has_component(store, kind) == kind \in DOMAIN store

\* C23: once build() has returned the App, no step (the call of run_daemons,
\* the steps of the daemons and of the supervisor, its return with Ok or Err)
\* changes the App's component store or its daemon registry, so every lookup
\* keeps its result.
C23_AppUnchangedByDaemons ==
    [][phase = "done"
        => /\ app' = app
           /\ has_registry' = has_registry
           /\ daemons' = daemons
           /\ \A kind \in Kinds :
                /\ has_component(app', kind) = has_component(app, kind)
                /\ get_component(app', kind) = get_component(app, kind)]_vars

\* C23 witness: run_daemons returned a daemon's failure on an App that holds
\* a component.
C23_Witness ==
    /\ phase = "done"
    /\ dpc = "returned" /\ dresult = "Err"
    /\ has_component(app, "K")

(***************************************************************************)
(* Services                                                                *)
(***************************************************************************)

\* The component kind of the handle a service produces (Service::Handle); each
\* service has a handle type of its own.
HandleKind(type_id) == type_id

\* The caller registers a service whose declared dependencies are `deps`.
AddService ==
    /\ UNCHANGED <<daemonVars, rounds, submitted>>
    /\ CallerTurn
    /\ \E type_id \in Ids, deps \in SUBSET Ids :
        LET b == add_service(Builder, type_id, deps) IN
        IF b.panic THEN Panic(type_id)
        ELSE /\ plugins' = b.plugins
             /\ pending_plugins' = b.pending_plugins
             /\ registered' = Put(registered, type_id, [by |-> Main, deps |-> deps])
             /\ phase' = "idle"
             /\ UNCHANGED <<components, localVars, result, app, builds, executed,
                            built, panicOn>>

\* ServiceProvider::build: Service::build produces the handle or fails; the
\* handle is stored with add_component under its kind.
ServiceBuild ==
    /\ UNCHANGED <<daemonVars, rounds, submitted>>
    /\ phase = "routine"
    /\ \E ok \in BOOLEAN :
        IF ok
        THEN LET c == add_component(Store, HandleKind(running), running) IN
             IF c.panic THEN Panic(HandleKind(running))
             ELSE /\ components' = c.components
                  /\ built' = built \cup {running}
                  /\ running' = None
                  /\ phase' = "exec"
                  /\ UNCHANGED <<plugins, pending_plugins, graph, used, order,
                                 ready_plugins, result, app, builds, executed,
                                 registered, panicOn>>
        ELSE /\ running' = None
             /\ ReturnErr("PluginError")
             /\ UNCHANGED <<builderVars, graph, used, order, ready_plugins,
                            app, builds, executed, built, registered, panicOn>>

NextServices ==
    \/ AddService
    \/ BuildCall
    \/ Round
    \/ ExecNext
    \/ ServiceBuild
    \/ RoundEnd
    \/ BuildOk

\* A builder on which only services are registered.
SpecServices == Init /\ [][NextServices]_vars

\* The component store as the caller sees it: the App's once build() returned
\* Ok, the builder's before.
CurrentStore == IF phase = "done" THEN app ELSE components

\* C21: a registered service is a plugin whose dependency set is the declared
\* one; the handle of every service whose build returned Ok is stored under
\* the handle's kind; and while a service's build runs, the handle of every
\* service it declared a dependency on is in the component store, whatever
\* the registration order.
C21_ServiceAsPlugin ==
    /\ \A x \in DOMAIN plugins : plugins[x] = registered[x].deps
    /\ \A x \in built :
        HandleKind(x) \in DOMAIN CurrentStore /\ CurrentStore[HandleKind(x)] = x
    /\ phase = "routine"
        => \A d \in registered[running].deps :
              HandleKind(d) \in DOMAIN components

\* C21 witness: service B depends on service A, B was registered first, and
\* B's build runs with A's handle in the store.
C21_Witness ==
    /\ phase = "routine" /\ running = "B"
    /\ registered["B"].deps = {"A"}
    /\ submitted = <<"B", "A">>
    /\ HandleKind("A") \in DOMAIN components

(***************************************************************************)
(* Further claims about the builder                                        *)
(***************************************************************************)

\* C24: a lookup reports the stored value or absence, nothing else; on the
\* builder a kind becomes present only by an add_component call (of the caller
\* or of a build routine) that did not panic, every such call makes its kind
\* present, and a present kind keeps its value until build() returns Ok; the
\* components do not change between the return of the last build routine and
\* the return of build(), and the App holds exactly the builder's components
\* of that moment.
C24_ComponentLookup ==
    /\ [](\A kind \in Kinds :
            /\ has_component(components, kind) <=> get_component(components, kind) # None
            /\ phase = "done" =>
                 (has_component(app, kind) <=> get_component(app, kind) # None))
    /\ [][\A kind \in Kinds :
            (~has_component(components, kind) /\ has_component(components', kind))
                => (AddComponent \/ RoutineAddComponent)]_vars
    /\ [][((AddComponent \/ RoutineAddComponent) /\ phase' # "panicked")
            => \E kind \in Kinds :
                 ~has_component(components, kind) /\ has_component(components', kind)]_vars
    /\ [][phase' # "done"
            => \A kind \in Kinds :
                 has_component(components, kind)
                    => get_component(components', kind) = get_component(components, kind)]_vars
    /\ [][(phase \in {"exec", "round"} /\ phase' # "done")
            => components' = components]_vars
    /\ [][(phase # "done" /\ phase' = "done") => app' = components]_vars

\* C24 witness: the App of a successful build() holds the component that a
\* build routine added.
C24_Witness ==
    /\ phase = "done" /\ builds = 1
    /\ has_component(app, "K")
    /\ get_component(app, "K") \in Ids
    /\ components = Empty

\* C25: MissingDependency is returned by a round and by nothing else; a round
\* begins with a non-empty pending queue; a round whose walk met no cycle
\* returns MissingDependency exactly when it marked no identity Ready; and a
\* round that marked an identity Ready never returns MissingDependency,
\* whether or not it deferred other identities.
C25_MissingExactlyWhenStuck ==
    /\ [][(result' = "MissingDependency" /\ result # "MissingDependency")
            => rounds' = rounds + 1]_vars
    /\ [][rounds' = rounds + 1
            => /\ pending_plugins # <<>>
               /\ result' # "CircularDependency"
                    => ((phase' = "returned" /\ result' = "MissingDependency")
                            <=> ReadyIn(used') = ReadyIn(used))
               /\ ReadyIn(used') # ReadyIn(used)
                    => result' # "MissingDependency"]_vars

\* C25 witness: the first round ordered an identity and deferred another one,
\* and build() goes on to execute the order.
C25_Witness ==
    /\ phase = "exec" /\ rounds = 1
    /\ executed = <<>>
    /\ order # <<>>
    /\ pending_plugins # <<>>
    /\ result = None

\* C26: within one build() call the graph only grows: a key of the graph
\* stays a key, and every edge recorded for it stays recorded.
C26_GraphOnlyGrows ==
    [][builds' = builds
        => \A x \in DOMAIN graph :
             x \in DOMAIN graph' /\ graph[x] \subseteq graph'[x]]_vars

\* C26 witness: the second round of a build() call has added a key to the
\* graph, which still holds the key and the edges of an identity built in the
\* first round.
C26_Witness ==
    /\ phase = "exec" /\ rounds = 2
    /\ \E x \in built : x \in DOMAIN graph /\ graph[x] # {}
    /\ \E y \in DOMAIN graph : registered[y].by # Main

\* C27: neither assertion of build() fails: while a round's order is being
\* executed, the identities still in the order are exactly the ready pending
\* identities not yet taken, so the next identity of the order is in that set
\* and the set is empty once the order is; no panic comes from an assertion.
C27_AssertionsHold ==
    /\ ~(phase = "panicked" /\ panicOn = None)
    /\ phase \in {"exec", "routine"} => Range(order) = ready_plugins
    /\ (phase = "exec" /\ order # <<>>) => Head(order) \in ready_plugins
    /\ (phase = "exec" /\ order = <<>>) => ready_plugins = {}

\* C27 witness: in a later round the order holds two identities, one of them
\* registered by a build routine, and both are ready.
C27_Witness ==
    /\ phase = "exec" /\ rounds >= 2
    /\ Len(order) = 2
    /\ Cardinality(ready_plugins) = 2
    /\ \E x \in ready_plugins : registered[x].by # Main

\* What the walk of the first pending identity leaves behind, and what the
\* whole round does, when the dependency sets are iterated in the orders iter.
FirstWalk(iter) ==
    topological_sort(pending_plugins[1],
                     insert_pending(graph, pending_plugins, plugins),
                     iter, <<>>, used)

RoundWalk(iter) ==
    walk_pending(1, pending_plugins,
                 insert_pending(graph, pending_plugins, plugins), iter,
                 [order |-> <<>>, used |-> used, ready |-> {},
                  pending |-> <<>>, err |-> FALSE])

\* C28: when the walk of the first pending identity X of a round is deferred,
\* X is left without a mark, no identity is left in progress, and the
\* identities the walk resolved are marked Ready and ordered; if the round
\* meets no cycle, they open the round's execution order and are ready, while
\* X is re-queued and still without a mark. Whenever a round hands an order
\* over for execution, the identities it re-queued have no mark and no mark
\* other than Ready is left.
C28_DeferredKeepsResolved ==
    /\ (phase = "round" /\ pending_plugins # <<>>)
        => \A iter \in IterOrders(pending_plugins, plugins) :
             LET X == pending_plugins[1]
                 r == FirstWalk(iter)
                 acc == RoundWalk(iter)
             IN r.res = "false"
                  => /\ X \notin DOMAIN r.used
                     /\ DOMAIN r.used = ReadyIn(r.used)
                     /\ Range(r.order) \subseteq ReadyIn(r.used)
                     /\ ~acc.err
                          => /\ SubSeq(acc.order, 1, Len(r.order)) = r.order
                             /\ Range(r.order) \subseteq ReadyIn(acc.used)
                             /\ Range(r.order) \subseteq acc.ready
                             /\ X \in Range(acc.pending)
                             /\ X \notin DOMAIN acc.used
    /\ (phase = "exec" /\ executed = <<>>)
        => /\ DOMAIN used = ReadyIn(used)
           /\ \A x \in Range(pending_plugins) : x \notin DOMAIN used

\* C28 witness: a round is about to begin in which, for some iteration order,
\* the walk of the first pending identity resolves one of its dependencies and
\* is then deferred.
C28_Witness ==
    /\ phase = "round" /\ pending_plugins # <<>>
    /\ \E iter \in IterOrders(pending_plugins, plugins) :
         /\ FirstWalk(iter).res = "false"
         /\ FirstWalk(iter).order # <<>>
         /\ ~RoundWalk(iter).err

\* C30: at the start of every round the pending queue holds no identity
\* twice and none that is marked Ready; in the first build() on a builder
\* every registered identity is marked Ready or is in the pending queue; and
\* no identity is in the in-progress state at a round start, nor after the
\* walk of the first pending identity or of the whole queue when that walk
\* met no cycle.
C30_RoundStart ==
    phase = "round"
        => /\ NoDuplicates(pending_plugins)
           /\ Range(pending_plugins) \cap ReadyIn(used) = {}
           /\ builds = 1
                => DOMAIN registered = ReadyIn(used) \cup Range(pending_plugins)
           /\ DOMAIN used = ReadyIn(used)
           /\ pending_plugins # <<>>
                => \A iter \in IterOrders(pending_plugins, plugins) :
                     /\ FirstWalk(iter).res # "cycle"
                          => DOMAIN FirstWalk(iter).used = ReadyIn(FirstWalk(iter).used)
                     /\ ~RoundWalk(iter).err
                          => DOMAIN RoundWalk(iter).used = ReadyIn(RoundWalk(iter).used)

\* C30 witness: the second round of the first build() begins with one
\* identity Ready, one deferred by the first round and one registered by a
\* build routine.
C30_Witness ==
    /\ phase = "round" /\ builds = 1 /\ rounds = 1
    /\ Cardinality(ReadyIn(used)) = 1
    /\ Len(pending_plugins) = 2
    /\ \E x \in Range(pending_plugins) : registered[x].by = Main
    /\ \E x \in Range(pending_plugins) : registered[x].by # Main

\* C20: with no daemon registered, the call of run_daemons returns Ok in one
\* step, leaving the root token as it was, having spawned and awaited nothing.
C20_NoDaemonsReturnsAtOnce ==
    /\ []((dpc = "returned" /\ ~has_registry)
            => (dresult = "Ok" /\ task = Empty /\ joined = <<>>))
    /\ [](has_registry <=> daemons # Empty)
    /\ [][(dpc = "setup" /\ daemons = Empty /\ dpc' # dpc)
            => (dpc' = "returned" /\ dresult' = "Ok" /\ shutdown' = shutdown)]_vars

\* C20 witness: run_daemons returned Ok with no daemon registered, while the
\* root token is still live.
C20_Witness ==
    /\ dpc = "returned" /\ dresult = "Ok"
    /\ daemons = Empty
    /\ shutdown = "live"

\* C29: when run_daemons has returned with a daemon registered, the root
\* token is cancelled, whether it returned Ok or Err; with no daemon registered
\* the call returns with the root token as it found it, and run_daemons never
\* cancels it.
C29_RootTokenEffect ==
    /\ []((dpc = "returned" /\ daemons # Empty) => shutdown # "live")
    /\ [](daemons = Empty => shutdown # "supervisor")
    /\ [][(dpc = "setup" /\ dpc' = "returned") => shutdown' = shutdown]_vars

\* C29 witness: run_daemons returned a daemon's failure and it was
\* run_daemons that cancelled the root token.
C29_Witness ==
    /\ dpc = "returned" /\ dresult = "Err"
    /\ shutdown = "supervisor"

====
